---------------------------- MODULE Spec2Model ----------------------------
(***************************************************************************)
(* rumoc: extractive summarizer (src/src/summarizer.rs, src/src/main.rs).  *)
(*                                                                         *)
(* main parses its arguments, opens the clipboard, detects the language,   *)
(* calls Summarizer::fit and stores the summary in the clipboard.  fit     *)
(* segments the text, tokenizes every sentence against one vocabulary,     *)
(* builds the relevance matrix, scores every sentence in one pass, and     *)
(* max_n picks the n best sentences, which are joined in document order.   *)
(*                                                                         *)
(* A document is a sequence of symbols: words and the sentence terminator  *)
(* ".".  f64 values are modelled as a record: NaN, +infinity, -infinity,   *)
(* or a finite value held in fixed point (thousandths).  The two zeros of  *)
(* IEEE 754 are one value here: the code only compares, adds and divides   *)
(* zeros by a non negative sum, where 0.0 and -0.0 behave alike.           *)
(***************************************************************************)
EXTENDS Integers, Sequences, FiniteSets, TLC

\* Bounds of the model.
MaxSentences == 3
MaxN == 4

\* The words of the documents, and the shapes of their sentences: the words
\* of a sentence followed by its terminator.
Words == {"a", "b", "c"}
Terminator == "."
SentencePool ==
    { <<".">>, <<"a", ".">>, <<"b", ".">>,
      <<"a", "b", ".">>, <<"b", "a", ".">>, <<"b", "b", ".">>, <<"c", "a", ".">> }

\* Option: None is the empty sequence, Some(x) holds x.
None == <<>>
Some(x) == <<x>>
Unwrap(opt) == opt[1]

\* ---------------------------------------------------------------- f64

\* Finite values are integers counting thousandths.
FScale == 1000

NaN == [k |-> "nan", v |-> 0]
PosInf == [k |-> "inf", v |-> 0]
NegInf == [k |-> "ninf", v |-> 0]
Fin(x) == [k |-> "fin", v |-> x]
FromInt(i) == Fin(i * FScale)

IsNaN(a) == a.k = "nan"
IsFin(a) == a.k = "fin"
\* The sign of a value: -1, 0 or 1 (of a value that is not NaN).
Sign(a) ==
    CASE a.k = "inf" -> 1
      [] a.k = "ninf" -> -1
      [] OTHER -> IF a.v > 0 THEN 1 ELSE IF a.v < 0 THEN -1 ELSE 0

Signed(s) == IF s < 0 THEN NegInf ELSE PosInf

\* a + b
FAdd(a, b) ==
    CASE IsNaN(a) \/ IsNaN(b) -> NaN
      [] IsFin(a) /\ IsFin(b) -> Fin(a.v + b.v)
      [] IsFin(a) -> b
      [] IsFin(b) -> a
      [] OTHER -> IF a.k = b.k THEN a ELSE NaN

\* a - b
FSub(a, b) ==
    FAdd(a, CASE b.k = "inf" -> NegInf
              [] b.k = "ninf" -> PosInf
              [] b.k = "fin" -> Fin(0 - b.v)
              [] OTHER -> NaN)

\* Integer division rounding toward zero.
TruncDiv(x, y) ==
    LET ax == IF x < 0 THEN 0 - x ELSE x
        ay == IF y < 0 THEN 0 - y ELSE y
        q == ax \div ay
    IN IF (x < 0) = (y < 0) THEN q ELSE 0 - q

\* a * b
FMul(a, b) ==
    CASE IsNaN(a) \/ IsNaN(b) -> NaN
      [] IsFin(a) /\ IsFin(b) -> Fin(TruncDiv(a.v * b.v, FScale))
      [] OTHER -> IF Sign(a) = 0 \/ Sign(b) = 0 THEN NaN
                  ELSE Signed(Sign(a) * Sign(b))

\* a / b: 0/0 and inf/inf are NaN, x/0 is an infinity, x/inf is zero.
FDiv(a, b) ==
    CASE IsNaN(a) \/ IsNaN(b) -> NaN
      [] IsFin(a) /\ IsFin(b) ->
            IF b.v = 0
            THEN IF a.v = 0 THEN NaN ELSE Signed(Sign(a))
            ELSE Fin(TruncDiv(a.v * FScale, b.v))
      [] IsFin(a) -> Fin(0)
      [] IsFin(b) -> Signed(Sign(a) * (IF Sign(b) < 0 THEN -1 ELSE 1))
      [] OTHER -> NaN

\* f64::partial_cmp: the ordering, "None" when either side is NaN.
PartialCmp(a, b) ==
    LET rank(x) == CASE x.k = "ninf" -> 0 [] x.k = "fin" -> 1 [] OTHER -> 2
    IN CASE IsNaN(a) \/ IsNaN(b) -> "None"
         [] rank(a) < rank(b) -> "Less"
         [] rank(a) > rank(b) -> "Greater"
         [] a.k = "fin" /\ a.v < b.v -> "Less"
         [] a.k = "fin" /\ a.v > b.v -> "Greater"
         [] OTHER -> "Equal"

\* The == of f64: false when either side is NaN.
FEq(a, b) == PartialCmp(a, b) = "Equal"

\* f64::log10 of a length, in thousandths: log10(0) is -infinity.
Log10Table == <<0, 301, 477, 602, 699, 778, 845, 903, 954, 1000>>
Log10(len) == IF len = 0 THEN NegInf ELSE Fin(Log10Table[len])

\* ------------------------------------------------------- segmentation

\* str::unicode_sentences: the text is cut after every terminator; what follows
\* the last terminator, when there is any, is the last sentence.
RECURSIVE SplitSentences(_, _, _)
SplitSentences(text, cur, acc) ==
    IF text = <<>>
    THEN IF cur = <<>> THEN acc ELSE Append(acc, cur)
    ELSE IF Head(text) = Terminator
         THEN SplitSentences(Tail(text), <<>>, Append(acc, Append(cur, Head(text))))
         ELSE SplitSentences(Tail(text), Append(cur, Head(text)), acc)

UnicodeSentences(text) == SplitSentences(text, <<>>, <<>>)

\* str::unicode_words: the words of a text in order, without the punctuation.
IsWord(c) == c \in Words
UnicodeWords(text) == SelectSeq(text, IsWord)

\* The texts of the sentences one after the other (Vec::join with "").
RECURSIVE Join(_)
Join(texts) == IF texts = <<>> THEN <<>> ELSE Head(texts) \o Join(Tail(texts))

\* The documents: at most MaxSentences sentences of the pool.
Documents ==
    UNION { { Join(ss) : ss \in [1..k -> SentencePool] } : k \in 0..MaxSentences }

\* --------------------------------------------------------- vocabulary

\* HashMap::new, HashMap::insert
EmptyMap == [w \in {} |-> 0]
Insert(tokens, w, i) == (w :> i) @@ tokens

\* let mut index = tokens.len() + 1
FirstIndexZeroBased(tokens) == Cardinality(DOMAIN tokens)
FirstIndex(tokens) == Cardinality(DOMAIN tokens) + 1

\* The closure run for every word: a known word pushes its id, a new word
\* pushes index, is inserted with it, and index moves on.
RECURSIVE TokenizeWords(_, _, _, _)
TokenizeWords(ws, sequence, tokens, index) ==
    IF ws = <<>>
    THEN [ret |-> Some(sequence), tokens |-> tokens]
    ELSE LET w == Head(ws)
         IN IF w \in DOMAIN tokens
            THEN TokenizeWords(Tail(ws), Append(sequence, tokens[w]), tokens, index)
            ELSE TokenizeWords(Tail(ws), Append(sequence, index),
                               Insert(tokens, w, index), index + 1)

\* Summarizer::tokenize: the sequence of ids of the words of one sentence and
\* the vocabulary it leaves; None when no language is set.
Tokenize(lang, text, tokens) ==
    CASE lang = Some("English") ->
            TokenizeWords(UnicodeWords(text), <<>>, tokens, FirstIndex(tokens))
      [] lang = Some("Chinese") ->
            TokenizeWords(UnicodeWords(text), <<>>, tokens, FirstIndex(tokens))
      [] OTHER -> [ret |-> None, tokens |-> tokens]

\* Option::unwrap_or
UnwrapOr(opt, default) == IF opt = None THEN default ELSE Unwrap(opt)

\* ---------------------------------------------------------- relevance

Range(s) == { s[i] : i \in 1..Len(s) }

\* compute_relevance: the common ids over the sum of the logarithms of the
\* two lengths.
ComputeRelevance(s1, s2) ==
    LET num_common == Cardinality(Range(s1) \cap Range(s2))
    IN FDiv(FromInt(num_common), FAdd(Log10(Len(s1)), Log10(Len(s2))))

\* One cell of the matrix: 0.0 on the diagonal.
Relevance(sequences, i, j) ==
    IF i = j THEN Fin(0) ELSE ComputeRelevance(sequences[i], sequences[j])

RelevanceMatrix(sequences) ==
    [i \in 1..Len(sequences) |->
        [j \in 1..Len(sequences) |-> Relevance(sequences, i, j)]]

\* sum += relevance, cell after cell in row-major order, from 0.0.
RECURSIVE SumCells(_, _, _)
SumCells(matrix, k, acc) ==
    LET size == Len(matrix)
    IN IF k >= size * size
       THEN acc
       ELSE SumCells(matrix, k + 1,
                     FAdd(acc, matrix[(k \div size) + 1][(k % size) + 1]))

TotalRelevance(matrix) == SumCells(matrix, 0, Fin(0))

\* -------------------------------------------------------------- scores

dump == Fin(800)
One == FromInt(1)

\* sen.iter().map(|rating| rating / sum).sum::<f64>()
RECURSIVE SumRatios(_, _, _, _)
SumRatios(sen, total, j, acc) ==
    IF j > Len(sen)
    THEN acc
    ELSE SumRatios(sen, total, j + 1, FAdd(acc, FDiv(sen[j], total)))

\* (1.0 - dump) + (dump * ...)
Score(sen, total) ==
    FAdd(FSub(One, dump), FMul(dump, SumRatios(sen, total, 1, Fin(0))))

\* tr_scores: one (index, score) pair per row of the matrix, indices from 0.
TrScores(matrix, total) ==
    [i \in 1..Len(matrix) |-> <<i - 1, Score(matrix[i], total)>>]

\* --------------------------------------------------------------- max_n

\* max_by keeps the element it holds only when the comparison says Greater:
\* of several maxima the last one is returned.
KeepHeldFirstMax(ordering) == ordering \in {"Greater", "Equal"}
KeepHeld(ordering) == ordering = "Greater"

\* copied.iter().enumerate().max_by(..): Some(position from 0) of the maximum
\* by score, None for an empty vector, Panicked when partial_cmp gives None
\* and expect fails.  held and k are positions from 1.
Panicked == <<"panic", "partial_cmp">>
RECURSIVE MaxByFold(_, _, _)
MaxByFold(copied, held, k) ==
    IF k > Len(copied)
    THEN Some(held - 1)
    ELSE LET ordering == PartialCmp(copied[held][2], copied[k][2])
         IN IF ordering = "None"
            THEN Panicked
            ELSE IF KeepHeld(ordering)
                 THEN MaxByFold(copied, held, k + 1)
                 ELSE MaxByFold(copied, k, k + 1)

MaxBy(copied) == IF copied = <<>> THEN None ELSE MaxByFold(copied, 1, 2)

\* Vec::remove(index), index from 0
Remove(vec, index) ==
    [p \in 1..(Len(vec) - 1) |-> IF p <= index THEN vec[p] ELSE vec[p + 1]]

\* while maxs.len() < n && copied.len() > 0
LoopCondInclusive(maxs, copied, n) == Len(maxs) <= n /\ Len(copied) > 0
LoopCond(maxs, copied, n) == Len(maxs) < n /\ Len(copied) > 0

\* maxs.sort(): ascending.
RECURSIVE InsertSorted(_, _)
InsertSorted(x, sorted) ==
    IF sorted = <<>> THEN <<x>>
    ELSE IF x <= Head(sorted)
         THEN <<x>> \o sorted
         ELSE <<Head(sorted)>> \o InsertSorted(x, Tail(sorted))

RECURSIVE InsertionSort(_)
InsertionSort(vec) ==
    IF vec = <<>> THEN <<>> ELSE InsertSorted(Head(vec), InsertionSort(Tail(vec)))

SortUnsorted(vec) == vec
Sort(vec) == InsertionSort(vec)

\* nth_max.iter().map(|&i| sentences[i]).collect().join("")
Summary(nth_max, sentences) ==
    Join([p \in 1..Len(nth_max) |-> sentences[nth_max[p] + 1]])

\* ---------------------------------------------------------------- state

VARIABLES
    pc,                 \* where main is
    src,                \* args.src
    n,                  \* args.n
    lang,               \* Summarizer::lang
    detect_result,      \* what detect returned: "Ok" or "NoLangFit"
    sentences,          \* fit: the sentences of src
    tokens,             \* fit: the vocabulary
    sequences,          \* fit: the id sequences of the sentences tokenized
    relevance_matrix,   \* fit
    sum,                \* fit: the total of the matrix
    tr_scores,          \* fit: (index, score) pairs
    maxs,               \* max_n
    copied,             \* max_n
    nth_max,            \* fit: what max_n returned
    summary,            \* fit: the summary, None until it is built
    clipboard,          \* the text of the clipboard, None until it is set
    panic               \* the message of the panic that ended main, or None

vars == <<pc, src, n, lang, detect_result, sentences, tokens, sequences,
          relevance_matrix, sum, tr_scores, maxs, copied, nth_max, summary,
          clipboard, panic>>

fitVars == <<sentences, tokens, sequences, relevance_matrix, sum, tr_scores,
             maxs, copied, nth_max, summary>>

Languages == {"English", "Chinese"}

\* Summarizer::default() and the parsed arguments.
Init ==
    /\ pc = "main"
    /\ src \in Documents
    /\ n \in 0..MaxN
    /\ lang = None
    /\ detect_result = "not called"
    /\ sentences = <<>>
    /\ tokens = EmptyMap
    /\ sequences = <<>>
    /\ relevance_matrix = <<>>
    /\ sum = Fin(0)
    /\ tr_scores = <<>>
    /\ maxs = <<>>
    /\ copied = <<>>
    /\ nth_max = <<>>
    /\ summary = None
    /\ clipboard = None
    /\ panic = None

\* ----------------------------------------------------------------- main

\* Summarizer::detect: the detector's answer, Some(language) or None, is an
\* input; Some sets the language and returns Ok, None returns the error.
Detect(self_lang, detected_lang) ==
    IF detected_lang # None
    THEN [lang |-> Some(Unwrap(detected_lang)), result |-> "Ok"]
    ELSE [lang |-> self_lang, result |-> "NoLangFit"]

\* Result::expect: main goes on only with Ok.
ExpectIgnored(result) == TRUE
Expect(result) == result = "Ok"

\* let mut clipboard = Clipboard::new().unwrap();
MainClipboard ==
    /\ pc = "main"
    /\ \E opened \in BOOLEAN :
          IF opened
          THEN pc' = "detect" /\ panic' = panic
          ELSE pc' = "panicked" /\ panic' = Some("Clipboard::new")
    /\ UNCHANGED <<src, n, lang, detect_result, fitVars, clipboard>>

\* summarizer.detect(&args.src).expect("Cannot detect language");
MainDetect ==
    /\ pc = "detect"
    /\ \E detected_lang \in {Some(l) : l \in Languages} \cup {None} :
          LET r == Detect(lang, detected_lang)
          IN /\ lang' = r.lang
             /\ detect_result' = r.result
             /\ IF Expect(r.result)
                THEN pc' = "fit" /\ panic' = panic
                ELSE pc' = "panicked" /\ panic' = Some("Cannot detect language")
    /\ UNCHANGED <<src, n, fitVars, clipboard>>

\* fit: let mut tokens = HashMap::new(); let sentences = src.unicode_sentences()
FitSentences ==
    /\ pc = "fit"
    /\ tokens' = EmptyMap
    /\ sentences' = UnicodeSentences(src)
    /\ sequences' = <<>>
    /\ pc' = "tokenize"
    /\ UNCHANGED <<src, n, lang, detect_result, relevance_matrix, sum, tr_scores,
                   maxs, copied, nth_max, summary, clipboard, panic>>

\* fit: one step of the map over the sentences,
\* self.tokenize(s, &mut tokens).unwrap_or(vec![])
FitTokenize ==
    /\ pc = "tokenize"
    /\ Len(sequences) < Len(sentences)
    /\ LET r == Tokenize(lang, sentences[Len(sequences) + 1], tokens)
       IN /\ tokens' = r.tokens
          /\ sequences' = Append(sequences, UnwrapOr(r.ret, <<>>))
    /\ UNCHANGED <<pc, src, n, lang, detect_result, sentences, relevance_matrix,
                   sum, tr_scores, maxs, copied, nth_max, summary, clipboard, panic>>

\* fit: the two nested loops that fill relevance_matrix and sum.
FitRelevance ==
    /\ pc = "tokenize"
    /\ Len(sequences) = Len(sentences)
    /\ relevance_matrix' = RelevanceMatrix(sequences)
    /\ sum' = TotalRelevance(RelevanceMatrix(sequences))
    /\ pc' = "scores"
    /\ UNCHANGED <<src, n, lang, detect_result, sentences, tokens, sequences,
                   tr_scores, maxs, copied, nth_max, summary, clipboard, panic>>

\* fit: calculate TextRank score for each sentence
FitScores ==
    /\ pc = "scores"
    /\ tr_scores' = TrScores(relevance_matrix, sum)
    /\ pc' = "max_n"
    /\ UNCHANGED <<src, n, lang, detect_result, sentences, tokens, sequences,
                   relevance_matrix, sum, maxs, copied, nth_max, summary,
                   clipboard, panic>>

\* max_n with its documented precondition, "Array length must be larger than
\* n", asserted on entry.
MaxNEnterAsserting ==
    /\ pc = "max_n"
    /\ IF Len(tr_scores) > n
       THEN maxs' = <<>> /\ copied' = tr_scores /\ pc' = "loop" /\ panic' = panic
       ELSE maxs' = maxs /\ copied' = copied /\ pc' = "panicked"
            /\ panic' = Some("Array length must be larger than n")
    /\ UNCHANGED <<src, n, lang, detect_result, sentences, tokens, sequences,
                   relevance_matrix, sum, tr_scores, nth_max, summary, clipboard>>

\* max_n: let mut maxs = vec![]; let mut copied = arr.clone();
MaxNEnter ==
    /\ pc = "max_n"
    /\ maxs' = <<>>
    /\ copied' = tr_scores
    /\ pc' = "loop"
    /\ UNCHANGED <<src, n, lang, detect_result, sentences, tokens, sequences,
                   relevance_matrix, sum, tr_scores, nth_max, summary,
                   clipboard, panic>>

\* max_n: one pass of the loop; the maximum found goes to the front of maxs
\* and leaves copied.
MaxNPass ==
    /\ pc = "loop"
    /\ LoopCond(maxs, copied, n)
    /\ MaxBy(copied) \notin {None, Panicked}
    /\ LET index == Unwrap(MaxBy(copied))
           v == copied[index + 1]
       IN /\ maxs' = <<v[1]>> \o maxs
          /\ copied' = Remove(copied, index)
    /\ UNCHANGED <<pc, src, n, lang, detect_result, sentences, tokens, sequences,
                   relevance_matrix, sum, tr_scores, nth_max, summary,
                   clipboard, panic>>

\* max_n: a pass whose comparison meets a NaN: expect panics.
MaxNPanic ==
    /\ pc = "loop"
    /\ LoopCond(maxs, copied, n)
    /\ MaxBy(copied) = Panicked
    /\ pc' = "panicked"
    /\ panic' = Some("partial_cmp")
    /\ UNCHANGED <<src, n, lang, detect_result, fitVars, clipboard>>

\* max_n: the loop is over; maxs.sort(); maxs
MaxNReturn ==
    /\ pc = "loop"
    /\ ~LoopCond(maxs, copied, n)
    /\ nth_max' = Sort(maxs)
    /\ pc' = "join"
    /\ UNCHANGED <<src, n, lang, detect_result, sentences, tokens, sequences,
                   relevance_matrix, sum, tr_scores, maxs, copied, summary,
                   clipboard, panic>>

\* fit: the summary is built, printed and returned.
FitSummary ==
    /\ pc = "join"
    /\ summary' = Some(Summary(nth_max, sentences))
    /\ pc' = "set_text"
    /\ UNCHANGED <<src, n, lang, detect_result, sentences, tokens, sequences,
                   relevance_matrix, sum, tr_scores, maxs, copied, nth_max,
                   clipboard, panic>>

\* clipboard.set_text(summary).expect("Failed to save to clipboard");
MainSetText ==
    /\ pc = "set_text"
    /\ \E saved \in BOOLEAN :
          IF saved
          THEN clipboard' = Some(Unwrap(summary)) /\ pc' = "done" /\ panic' = panic
          ELSE clipboard' = clipboard /\ pc' = "panicked"
               /\ panic' = Some("Failed to save to clipboard")
    /\ UNCHANGED <<src, n, lang, detect_result, fitVars>>

Next ==
    \/ MainClipboard
    \/ MainDetect
    \/ FitSentences
    \/ FitTokenize
    \/ FitRelevance
    \/ FitScores
    \/ MaxNEnter
    \/ MaxNPass
    \/ MaxNPanic
    \/ MaxNReturn
    \/ FitSummary
    \/ MainSetText

Spec == Init /\ [][Next]_vars

\* ------------------------------------------------- max_n on its own

\* The selection applied to any vector of scores: fit has its scores, of any
\* value, and goes on from the call of max_n.
ScoreValues == {Fin(200), Fin(600), Fin(1000), NaN}

\* Sentence i of these documents has i words.
SelText(i) == [p \in 1..(i + 1) |-> IF p <= i THEN "a" ELSE Terminator]

SelInit ==
    /\ pc = "max_n"
    /\ \E size \in 0..MaxSentences :
          /\ sentences = [i \in 1..size |-> SelText(i)]
          /\ tr_scores \in { [i \in 1..size |-> <<i - 1, sc[i]>>] :
                               sc \in [1..size -> ScoreValues] }
    /\ src = Join(sentences)
    /\ n \in 0..MaxN
    /\ lang = Some("English")
    /\ detect_result = "Ok"
    /\ tokens = EmptyMap
    /\ sequences = <<>>
    /\ relevance_matrix = <<>>
    /\ sum = Fin(0)
    /\ maxs = <<>>
    /\ copied = <<>>
    /\ nth_max = <<>>
    /\ summary = None
    /\ clipboard = None
    /\ panic = None

SelNext ==
    \/ MaxNEnter
    \/ MaxNPass
    \/ MaxNPanic
    \/ MaxNReturn
    \/ FitSummary

SelSpec == SelInit /\ [][SelNext]_vars

\* --------------------------------------------------------- properties

\* The sentences of the document, whatever the progress of fit.
DocSentences == UnicodeSentences(src)
SentenceCount == Len(DocSentences)
Min(a, b) == IF a <= b THEN a ELSE b

\* fit is running or has run.
FitEntered == pc \in {"fit", "tokenize", "scores", "max_n", "loop", "join",
                      "set_text", "done"}
\* A panic inside fit: after detect returned Ok and before a summary exists.
FitPanicked == pc = "panicked" /\ detect_result = "Ok" /\ summary = None
\* relevance_matrix and sum are built; tr_scores is built; max_n has returned.
MatrixBuilt == pc \in {"scores", "max_n", "loop", "join", "set_text", "done"}
                \/ FitPanicked
ScoresBuilt == pc \in {"max_n", "loop", "join", "set_text", "done"}
                \/ FitPanicked
MaxNReturned == pc \in {"join", "set_text", "done"} \/ summary # None

ScoreOf(i) == tr_scores[i + 1][2]
Selected == Range(nth_max)
Comparable == \A p \in 1..Len(tr_scores) : ~IsNaN(tr_scores[p][2])
AllScoresEqual ==
    \A p, q \in 1..Len(tr_scores) : FEq(tr_scores[p][2], tr_scores[q][2])
Ascending(vec) == \A p, q \in 1..Len(vec) : p < q => vec[p] < vec[q]

\* C1: for a document of S sentences and n >= S, fit raises no error and
\* returns all S sentences, each once, in document order: max_n returns the
\* indices 0..S-1 and the summary is the whole text.
C1_AllSentencesWhenNCovers ==
    n >= SentenceCount =>
        /\ ~FitPanicked
        /\ MaxNReturned => nth_max = [p \in 1..SentenceCount |-> p - 1]
        /\ summary # None => Unwrap(summary) = src

\* The indices left in a vector of pairs whose score is no less than any other.
MaximaOf(pairs) ==
    { pairs[p][1] : p \in { p \in 1..Len(pairs) :
        \A q \in 1..Len(pairs) :
            PartialCmp(pairs[p][2], pairs[q][2]) \in {"Greater", "Equal"} } }
Lowest(set) == CHOOSE x \in set : \A y \in set : x <= y
Highest(set) == CHOOSE x \in set : \A y \in set : x >= y
\* A pass of the loop of max_n removes a pair of a vector that has maxima.
PassTaken == pc = "loop" /\ Len(maxs') = Len(maxs) + 1 /\ MaximaOf(copied) # {}

\* C2 as stated: every pass removes, of the pairs that share the maximum
\* score, the one of lowest sentence index; so when all scores are equal and
\* n < S the summary is the first n sentences.
C2_TieRemovesLowestIndex ==
    /\ [][PassTaken => Head(maxs') = Lowest(MaximaOf(copied))]_vars
    /\ [](summary # None /\ AllScoresEqual /\ n < Len(sentences)
            => Unwrap(summary) = Join(SubSeq(sentences, 1, n)))

\* C2 amended: every pass removes, of the pairs that share the maximum score,
\* the one of highest sentence index (max_by returns the last maximum); so
\* when all scores are equal and n < S the summary is the last n sentences.
C2_TieRemovesHighestIndex ==
    /\ [][PassTaken => Head(maxs') = Highest(MaximaOf(copied))]_vars
    /\ [](summary # None /\ AllScoresEqual /\ n < Len(sentences)
            => Unwrap(summary) =
                 Join(SubSeq(sentences, Len(sentences) - n + 1, Len(sentences))))

\* C2 witness: a summary of fewer sentences than the document has, all of
\* equal score, that is not the first n sentences.
C2_TieWitness ==
    /\ summary # None
    /\ AllScoresEqual
    /\ 0 < n /\ n < Len(sentences)
    /\ Unwrap(summary) # Join(SubSeq(sentences, 1, n))

\* C3: when the total relevance is 0, there is one score per sentence and
\* every score equals 1 - damping.
C3_ZeroSumScoresAreBaseline ==
    (ScoresBuilt /\ FEq(sum, Fin(0))) =>
        /\ Len(tr_scores) = Len(sentences)
        /\ \A p \in 1..Len(tr_scores) : FEq(tr_scores[p][2], FSub(One, dump))

\* C4: the relevance matrix has a zero diagonal and is symmetric, for every
\* pair of sentences, those of zero or one token included.
C4_MatrixSymmetricZeroDiagonal ==
    MatrixBuilt =>
        \A i, j \in 1..Len(relevance_matrix) :
            /\ FEq(relevance_matrix[i][i], Fin(0))
            /\ FEq(relevance_matrix[i][j], relevance_matrix[j][i])

\* The words of the sentences tokenized so far, in order.
RECURSIVE WordsOf(_)
WordsOf(texts) ==
    IF texts = <<>> THEN <<>> ELSE UnicodeWords(Head(texts)) \o WordsOf(Tail(texts))
SeenWords == WordsOf(SubSeq(sentences, 1, Len(sequences)))
FirstPos(ws, w) == CHOOSE p \in 1..Len(ws) : ws[p] = w /\ \A q \in 1..(p - 1) : ws[q] # w

\* C5: after any prefix of the sentences is tokenized, the vocabulary holds
\* the words seen so far, its ids are exactly 1..k for k distinct words, in
\* the order of first occurrence, every occurrence of a word carries the id
\* of the word, and no step changes or removes the id of a word.
C5_VocabularyIds ==
    /\ [](/\ DOMAIN tokens = Range(SeenWords)
          /\ { tokens[w] : w \in DOMAIN tokens } = 1..Cardinality(Range(SeenWords))
          /\ \A w1, w2 \in DOMAIN tokens :
                tokens[w1] < tokens[w2] <=>
                    FirstPos(SeenWords, w1) < FirstPos(SeenWords, w2)
          /\ \A k \in 1..Len(sequences) :
                /\ Len(sequences[k]) = Len(UnicodeWords(sentences[k]))
                /\ \A p \in 1..Len(sequences[k]) :
                      sequences[k][p] = tokens[UnicodeWords(sentences[k])[p]])
    /\ [][\A w \in DOMAIN tokens :
            w \in DOMAIN tokens' /\ tokens'[w] = tokens[w]]_vars

\* C5 witness: all the sentences of a document of three distinct words, one
\* of them repeated in a later sentence, are tokenized.
C5_VocabularyWitness ==
    /\ pc = "tokenize"
    /\ Len(sequences) = Len(sentences)
    /\ Len(sentences) >= 2
    /\ Cardinality(DOMAIN tokens) = 3
    /\ \E p \in 1..Len(sequences[Len(sequences)]) :
          sequences[Len(sequences)][p] < Cardinality(DOMAIN tokens)

\* C6: for the empty document fit finds no sentence, does not panic, and
\* returns the empty string, whatever n.
C6_EmptyDocumentEmptySummary ==
    src = <<>> =>
        /\ ~FitPanicked
        /\ sentences = <<>>
        /\ summary # None => Unwrap(summary) = <<>>

\* C6 witness: fit has returned for the empty document and n >= 1.
C6_EmptyDocumentWitness ==
    src = <<>> /\ n >= 1 /\ summary = Some(<<>>)

\* C7: for n = 0 fit does not panic and returns the empty string, whatever the
\* document and its scores.
C7_ZeroRequestedEmptySummary ==
    n = 0 =>
        /\ ~FitPanicked
        /\ MaxNReturned => nth_max = <<>>
        /\ summary # None => Unwrap(summary) = <<>>

\* C7 witness: fit has returned for n = 0 and a document of several sentences
\* whose scores are NaN.
C7_ZeroRequestedWitness ==
    /\ n = 0
    /\ summary = Some(<<>>)
    /\ Len(tr_scores) >= 2
    /\ \E p \in 1..Len(tr_scores) : IsNaN(tr_scores[p][2])

\* C8: when detect returns NoLangFit main panics at once: fit is not entered,
\* no summary exists and the clipboard is not set; fit runs only with detect
\* returned Ok and the language set.
C8_FitOnlyAfterDetect ==
    /\ detect_result = "NoLangFit" =>
          /\ pc = "panicked"
          /\ panic = Some("Cannot detect language")
          /\ lang = None
          /\ fitVars = <<<<>>, EmptyMap, <<>>, <<>>, Fin(0), <<>>, <<>>, <<>>, <<>>, None>>
          /\ clipboard = None
    /\ (FitEntered \/ summary # None \/ clipboard # None) =>
          detect_result = "Ok" /\ lang # None

\* C8 witness: detect has failed.
C8_DetectFailedWitness ==
    detect_result = "NoLangFit" /\ pc = "panicked" /\ src # <<>>

\* The texts of the selected sentences from sentence k on, in document order.
RECURSIVE SelectedInOrder(_)
SelectedInOrder(k) ==
    IF k > Len(sentences)
    THEN <<>>
    ELSE (IF k - 1 \in Selected THEN sentences[k] ELSE <<>>) \o SelectedInOrder(k + 1)

\* C9: for comparable scores, the loop of max_n makes exactly min(n, S)
\* removals, one per pass, and max_n returns min(n, S) distinct indices of
\* sentences in strictly ascending order, every selected score no less than
\* any unselected one; the summary joins these sentences in that order.
C9_SelectionTopNAscending ==
    /\ [](Comparable /\ MaxNReturned =>
            /\ Len(nth_max) = Min(n, Len(tr_scores))
            /\ Len(copied) = Len(tr_scores) - Min(n, Len(tr_scores))
            /\ Ascending(nth_max)
            /\ Selected \subseteq 0..(Len(tr_scores) - 1)
            /\ \A i \in Selected : \A j \in (0..(Len(tr_scores) - 1)) \ Selected :
                  PartialCmp(ScoreOf(i), ScoreOf(j)) \in {"Greater", "Equal"}
            /\ summary # None => Unwrap(summary) = SelectedInOrder(1))
    /\ [][Comparable /\ pc = "loop" /\ pc' = "loop" =>
            /\ Len(maxs') = Len(maxs) + 1
            /\ Len(copied') = Len(copied) - 1
            /\ Len(maxs) < Min(n, Len(tr_scores))]_vars

\* C9 witness: max_n has returned two of three sentences of distinct
\* comparable scores, the best of them not the first selected.
C9_SelectionWitness ==
    /\ pc = "set_text"
    /\ Comparable
    /\ Len(tr_scores) = 3
    /\ Len(nth_max) = 2
    /\ PartialCmp(ScoreOf(nth_max[2]), ScoreOf(nth_max[1])) = "Greater"
    /\ \E j \in 0..2 : j \notin Selected /\ j < nth_max[2]

\* C10: with a language set and n >= 1, fit never panics: the comparison of
\* max_n meets no NaN.
C10_FitNeverPanics ==
    (lang # None /\ n >= 1) => ~FitPanicked

=============================================================================
